---- MODULE Spec2Model ----
(***************************************************************************)
(* Fixed-window rate limiter of warp-rate-limit (src/src/lib.rs).          *)
(*                                                                         *)
(* Time is counted in ticks, TicksPerSec ticks to the second, so that a    *)
(* Duration has a sub-second part and Duration::as_secs / timestamp()      *)
(* truncate.  Instant::now() reads `clock`; Utc::now() reads the wall      *)
(* clock UtcEpoch + clock.  A check is two steps: the lock acquisition     *)
(* with the reads of lines 179-181, and the match of lines 183-211 that    *)
(* ends with the drop of the write guard.  Time may pass between them.     *)
(***************************************************************************)
EXTENDS Integers, Sequences, FiniteSets, TLC

\* ------------------------------------------------------------------ bounds
NumTasks    == 2      \* concurrent request-handling tasks
MaxCalls    == 3      \* check_rate_limit calls in one behaviour
MaxTime     == 3      \* last tick of the monotonic clock
MaxRequests == 2      \* largest configured max_requests
MaxWindow   == 2      \* largest configured window, in ticks
TicksPerSec == 2      \* ticks in one second
UtcEpoch    == 23     \* wall-clock reading, in ticks, at clock = 0
CounterBits == 2      \* width of the unsigned counters (u32 in the source)
MaxTextLen  == 2      \* longest retry_after string a caller hands to the codec
MaxBurst    == 4      \* calls of the one client that calls in sequence

Tasks   == 1..NumTasks
Keys    == {"a", "b"}
U32     == 2 ^ CounterBits
U32_MAX == U32 - 1

\* ------------------------------------------------------------ config.rs
RetryAfterFormat == {"HttpDate", "Seconds"}

RateLimitConfig ==
    [max_requests : 0..MaxRequests,
     window : 0..MaxWindow,
     retry_after_format : RetryAfterFormat]

\* ------------------------------------------------------------ Option<T>
None == [some |-> FALSE]
Some(v) == [some |-> TRUE, val |-> v]

VARIABLES
    config,    \* RateLimiter.config
    state,     \* RateLimiter.state: key -> Option<(Instant, u32)>
    lock,      \* holder of the RwLock write guard, 0 when free
    pc,        \* task -> "idle" | "waiting" | "locked" | "dropped"
    key,       \* task -> the key of its call
    now,       \* task -> `now` of line 180
    current,   \* task -> `current` of line 181
    clock,     \* the monotonic clock
    log,       \* the completed checks, in the order of their decisions
    last,      \* the last completed check, with all that it returned
    hdr_info,  \* the RateLimitInfo handed to add_rate_limit_headers
    hdr_map,   \* the HeaderMap handed to add_rate_limit_headers
    hdr_result \* what add_rate_limit_headers returned, NotCalled before the call

\* The arguments and the result of add_rate_limit_headers.
hvars == <<hdr_info, hdr_map, hdr_result>>

vars == <<config, state, lock, pc, key, now, current, clock, log, last, hvars>>

\* ------------------------------------------------------------- durations
\* Instant::duration_since saturates to zero when `earlier` is later.
duration_since(later, earlier) == IF later >= earlier THEN later - earlier ELSE 0

\* Duration::as_secs: the whole seconds.
as_secs(d) == d \div TicksPerSec

\* Utc::now()
UtcNow == UtcEpoch + clock

\* DateTime::timestamp: whole seconds since the epoch.
timestamp(t) == t \div TicksPerSec

\* A string is the sequence of its bytes; '0' is 48 and '-' is 45.
\* u64::to_string / u32::to_string / i64::to_string: the decimal digits, most
\* significant first, after the sign.
RECURSIVE to_string(_)
to_string(n) ==
    IF n < 0 THEN <<45>> \o to_string(0 - n)
    ELSE IF n < 10 THEN <<48 + n>>
    ELSE Append(to_string(n \div 10), 48 + (n % 10))

\* str::parse::<u64> of a decimal string.
RECURSIVE parse_u64(_)
parse_u64(digits) ==
    IF Len(digits) = 0 THEN 0
    ELSE 10 * parse_u64(SubSeq(digits, 1, Len(digits) - 1)) + (digits[Len(digits)] - 48)

\* str::parse::<i64> of a decimal string.
parse_i64(text) ==
    IF Len(text) > 0 /\ text[1] = 45
    THEN 0 - parse_u64(SubSeq(text, 2, Len(text)))
    ELSE parse_u64(text)

\* DateTime::to_rfc2822 renders the date to the second: the date text is
\* the letter 'D' (68) and the whole seconds.
to_rfc2822(t) == <<68>> \o to_string(t \div TicksPerSec)

\* ------------------------------------------------------------- create_info
create_info(remaining, start) ==
    LET reset_time == start + config.window
        retry_after ==
            IF config.retry_after_format = "HttpDate"
            THEN to_rfc2822(UtcNow + config.window)
            ELSE to_string(as_secs(config.window))
    IN  [retry_after |-> retry_after,
         limit |-> config.max_requests,
         remaining |-> remaining,
         reset_timestamp |-> timestamp(UtcNow + duration_since(reset_time, start)),
         retry_after_format |-> config.retry_after_format]

\* ------------------------------------------------------ get_rate_limit_info
get_rate_limit_info_RawReset(rejection) ==
    [retry_after |->
        IF rejection.retry_after_format = "HttpDate"
        THEN to_rfc2822(rejection.reset_time)
        ELSE to_string(as_secs(rejection.retry_after)),
     limit |-> rejection.limit,
     remaining |-> 0,
     reset_timestamp |-> rejection.reset_time,
     retry_after_format |-> rejection.retry_after_format]

get_rate_limit_info(rejection) ==
    [retry_after |->
        IF rejection.retry_after_format = "HttpDate"
        THEN to_rfc2822(rejection.reset_time)
        ELSE to_string(as_secs(rejection.retry_after)),
     limit |-> rejection.limit,
     remaining |-> 0,
     reset_timestamp |-> timestamp(rejection.reset_time),
     retry_after_format |-> rejection.retry_after_format]

\* ------------------------------------------------- add_rate_limit_headers
\* The four header names, in the order of the inserts.
HeaderNames ==
    <<"Retry-After", "X-RateLimit-Limit", "X-RateLimit-Remaining", "X-RateLimit-Reset">>

\* HeaderMap::new()
EmptyHeaders == [h \in {HeaderNames[i] : i \in 1..4} |-> None]

\* HeaderValue::from_str accepts the visible ASCII bytes and the tab.
is_valid_byte(b) == (b >= 32 /\ b # 127) \/ b = 9

is_valid_header_value(text) == \A i \in 1..Len(text) : is_valid_byte(text[i])

\* The strings the four inserts encode, in their order (lines 278-291).
HeaderTexts(i) ==
    <<i.retry_after, to_string(i.limit), to_string(i.remaining),
      to_string(i.reset_timestamp)>>

\* RateLimitError::HeaderError(InvalidHeaderValue): the wrapped error of the
\* http crate has no field.
HeaderError == [variant |-> "HeaderError", source |-> "InvalidHeaderValue"]

\* Ok(()) of line 293, and the value of hdr_result before the call.
OkUnit == [variant |-> "Ok", source |-> "()"]
NotCalled == [variant |-> "NotCalled", source |-> "()"]

\* Lines 276-293: the inserts from the j-th on; the first text that does not
\* encode ends the call with the error, the map as it then is.
RECURSIVE insert_from(_, _, _)
insert_from(hs, texts, j) ==
    IF j > 4 THEN [result |-> OkUnit, headers |-> hs]
    ELSE IF ~is_valid_header_value(texts[j])
         THEN [result |-> HeaderError, headers |-> hs]
         ELSE insert_from([hs EXCEPT ![HeaderNames[j]] = Some(texts[j])], texts, j + 1)

RECURSIVE insert_all(_, _, _, _)
insert_all(hs, texts, j, failed) ==
    IF j > 4 THEN [result |-> IF failed THEN HeaderError ELSE OkUnit, headers |-> hs]
    ELSE IF ~is_valid_header_value(texts[j])
         THEN insert_all(hs, texts, j + 1, TRUE)
         ELSE insert_all([hs EXCEPT ![HeaderNames[j]] = Some(texts[j])], texts, j + 1, failed)

add_rate_limit_headers_KeepGoing(hs, i) == insert_all(hs, HeaderTexts(i), 1, FALSE)

add_rate_limit_headers(hs, i) == insert_from(hs, HeaderTexts(i), 1)

\* --------------------------------------------------------------- outcomes
NoInfo == [retry_after |-> <<>>, limit |-> 0, remaining |-> 0,
           reset_timestamp |-> 0, retry_after_format |-> "Seconds"]
NoRejection == [retry_after |-> 0, limit |-> 0, reset_time |-> 0,
                retry_after_format |-> "Seconds"]

Ok(k, n, cur, info) ==
    [key |-> k, now |-> n, current |-> cur, utc |-> UtcNow,
     outcome |-> "Admitted", info |-> info, rejection |-> NoRejection]
Err(k, n, cur, rejection) ==
    [key |-> k, now |-> n, current |-> cur, utc |-> UtcNow,
     outcome |-> "Rejected", info |-> NoInfo, rejection |-> rejection]
Panic(k, n, cur) ==
    [key |-> k, now |-> n, current |-> cur, utc |-> UtcNow,
     outcome |-> "Panic", info |-> NoInfo, rejection |-> NoRejection]
NoDecision ==
    [key |-> "a", now |-> 0, current |-> None, utc |-> 0,
     outcome |-> "None", info |-> NoInfo, rejection |-> NoRejection]

\* What the log keeps of a completed check; window_start is the start stored
\* for the key once the check is done.
LogEntry(d, window_start) ==
    [key |-> d.key, now |-> d.now, outcome |-> d.outcome,
     remaining |-> d.info.remaining, window_start |-> window_start]

\* `max_requests - c` on u32 (lines 188, 203, 209): the difference, or, when
\* c > max_requests, a panic in a build with overflow checks and the wrapped
\* value in a build without them.
SubOutcomes(c) ==
    IF c <= config.max_requests
    THEN {[panic |-> FALSE, val |-> config.max_requests - c]}
    ELSE {[panic |-> TRUE, val |-> 0],
          [panic |-> FALSE, val |-> (config.max_requests - c) % U32]}

\* ------------------------------------------------------- check_rate_limit
CanAcquire_NoLock(t) == TRUE

\* Line 179: state.write() is granted when no guard is out.
CanAcquire(t) == lock = 0

\* Line 181: state.get(key).copied()
Lookup(k) == state[k]

Expired_Inclusive(n, last_request) == duration_since(n, last_request) >= config.window

\* Line 185: the window has passed.
Expired(n, last_request) == duration_since(n, last_request) > config.window

LimitReached_OffByOne(count) == count > config.max_requests

\* Line 189: the limit is reached.
LimitReached(count) == count >= config.max_requests

\* The three arms below give the outcomes of the match for key k, `now` n and
\* `current` cur: what is inserted for the key (None: no insert) and the
\* decision returned.

\* Lines 187-188 and 208-209: a first request, or a window that has passed.
FreshWindow(k, n, cur) ==
    {[insert |-> Some([start |-> n, count |-> 1]),
      decision |-> IF r.panic THEN Panic(k, n, cur)
                   ELSE Ok(k, n, cur, create_info(r.val, n))] :
        r \in SubOutcomes(1)}

Reject_Counting(k, n, cur) ==
    LET last_request == cur.val.start
        retry_after == config.window - duration_since(n, last_request)
    IN  {[insert |-> Some([start |-> last_request, count |-> cur.val.count + 1]),
          decision |-> Err(k, n, cur,
                           [retry_after |-> retry_after,
                            limit |-> config.max_requests,
                            reset_time |-> UtcNow + retry_after,
                            retry_after_format |-> config.retry_after_format])]}

Reject_FullWindow(k, n, cur) ==
    {[insert |-> None,
      decision |-> Err(k, n, cur,
                       [retry_after |-> config.window,
                        limit |-> config.max_requests,
                        reset_time |-> UtcNow + config.window,
                        retry_after_format |-> config.retry_after_format])]}

\* Lines 190-199: the rejection; nothing is inserted.
Reject(k, n, cur) ==
    LET last_request == cur.val.start
        retry_after == config.window - duration_since(n, last_request)
        reset_time == UtcNow + retry_after
    IN  {[insert |-> None,
          decision |-> Err(k, n, cur,
                           [retry_after |-> retry_after,
                            limit |-> config.max_requests,
                            reset_time |-> reset_time,
                            retry_after_format |-> config.retry_after_format])]}

Increment_NoCount(k, n, cur) ==
    {[insert |-> Some([start |-> cur.val.start, count |-> cur.val.count]),
      decision |-> IF r.panic THEN Panic(k, n, cur)
                   ELSE Ok(k, n, cur, create_info(r.val, cur.val.start))] :
        r \in SubOutcomes(cur.val.count + 1)}

\* Lines 201-203: the counter is incremented, the start kept.
Increment(k, n, cur) ==
    LET last_request == cur.val.start
        count == cur.val.count
    IN  {[insert |-> Some([start |-> last_request, count |-> count + 1]),
          decision |-> IF r.panic THEN Panic(k, n, cur)
                       ELSE Ok(k, n, cur, create_info(r.val, last_request))] :
            r \in SubOutcomes(count + 1)}

\* Lines 183-211: the match.
Match(k, n, cur) ==
    IF cur.some
    THEN IF Expired(n, cur.val.start)
         THEN FreshWindow(k, n, cur)
         ELSE IF LimitReached(cur.val.count)
              THEN Reject(k, n, cur)
              ELSE Increment(k, n, cur)
    ELSE FreshWindow(k, n, cur)

Insert_AllKeys(st, k, r) == IF r.insert.some THEN [j \in Keys |-> r.insert] ELSE st

Insert_ZeroOnReject(st, k, r) ==
    IF r.insert.some THEN [st EXCEPT ![k] = r.insert]
    ELSE [st EXCEPT ![k] = Some([start |-> st[k].val.start, count |-> 0])]

\* HashMap::insert, when the arm inserts.
Insert(st, k, r) == IF r.insert.some THEN [st EXCEPT ![k] = r.insert] ELSE st

\* ---------------------------------------------------------------- actions
Init ==
    /\ config \in RateLimitConfig
    /\ state = [k \in Keys |-> None]
    /\ lock = 0
    /\ pc = [t \in Tasks |-> "idle"]
    /\ key = [t \in Tasks |-> "a"]
    /\ now = [t \in Tasks |-> 0]
    /\ current = [t \in Tasks |-> None]
    /\ clock = 0
    /\ log = <<>>
    /\ last = NoDecision
    /\ hdr_info = NoInfo
    /\ hdr_map = EmptyHeaders
    /\ hdr_result = NotCalled

\* The calls made and not yet decided, the dropped ones among them.
Pending == Cardinality({t \in Tasks : pc[t] # "idle"})

\* A task calls check_rate_limit(key) and waits for state.write().
Call(t, k) ==
    /\ pc[t] = "idle"
    /\ Len(log) + Pending < MaxCalls
    /\ pc' = [pc EXCEPT ![t] = "waiting"]
    /\ key' = [key EXCEPT ![t] = k]
    /\ UNCHANGED <<config, state, lock, now, current, clock, log, last, hvars>>

Cancel_KeepsGrant(t) ==
    /\ pc[t] = "waiting"
    /\ pc' = [pc EXCEPT ![t] = "dropped"]
    /\ key' = [key EXCEPT ![t] = "a"]
    /\ lock' = IF lock = 0 THEN t ELSE lock
    /\ UNCHANGED <<config, state, now, current, clock, log, last, hvars>>

\* The future is dropped while it waits for the lock: the task is gone and
\* its place in the lock's wait queue with it.
Cancel(t) ==
    /\ pc[t] = "waiting"
    /\ pc' = [pc EXCEPT ![t] = "dropped"]
    /\ key' = [key EXCEPT ![t] = "a"]
    /\ UNCHANGED <<config, state, lock, now, current, clock, log, last, hvars>>

Acquire_NowBeforeLock(t) ==
    /\ pc[t] = "waiting"
    /\ CanAcquire(t)
    /\ lock' = t
    /\ pc' = [pc EXCEPT ![t] = "locked"]
    /\ \E n \in 0..clock : now' = [now EXCEPT ![t] = n]
    /\ current' = [current EXCEPT ![t] = Lookup(key[t])]
    /\ UNCHANGED <<config, state, key, clock, log, last, hvars>>

\* Lines 179-181: the write guard is granted, then `now` and `current` are read.
Acquire(t) ==
    /\ pc[t] = "waiting"
    /\ CanAcquire(t)
    /\ lock' = t
    /\ pc' = [pc EXCEPT ![t] = "locked"]
    /\ now' = [now EXCEPT ![t] = clock]
    /\ current' = [current EXCEPT ![t] = Lookup(key[t])]
    /\ UNCHANGED <<config, state, key, clock, log, last, hvars>>

\* Lines 183-212: the match under the write guard, the decision returned and
\* the guard dropped (on a panic too: the guard is dropped by the unwinding).
Decide(t) ==
    /\ pc[t] = "locked"
    /\ \E r \in Match(key[t], now[t], current[t]) :
          /\ state' = Insert(state, key[t], r)
          /\ last' = r.decision
          /\ log' = Append(log, LogEntry(r.decision, state'[key[t]].val.start))
    /\ lock' = IF lock = t THEN 0 ELSE lock
    /\ pc' = [pc EXCEPT ![t] = "idle"]
    /\ key' = [key EXCEPT ![t] = "a"]
    /\ now' = [now EXCEPT ![t] = 0]
    /\ current' = [current EXCEPT ![t] = None]
    /\ UNCHANGED <<config, clock, hvars>>

\* Time passes.
Tick ==
    /\ clock < MaxTime
    /\ clock' = clock + 1
    /\ UNCHANGED <<config, state, lock, pc, key, now, current, log, last, hvars>>

Next ==
    \/ \E t \in Tasks, k \in Keys : Call(t, k)
    \/ \E t \in Tasks : Cancel(t)
    \/ \E t \in Tasks : Acquire(t)
    \/ \E t \in Tasks : Decide(t)
    \/ Tick

Spec == Init /\ [][Next]_vars

\* ------------------------------------------------------- fair scheduling
\* The match has no suspension point (lines 180-211): a check that holds the
\* guard runs to its return.  tokio's RwLock grants the guard in the order
\* of its wait queue: a check that keeps waiting is not passed over forever.
Fairness ==
    \A t \in Tasks : WF_vars(Decide(t)) /\ SF_vars(Acquire(t))

SpecFair == Init /\ [][Next]_vars /\ Fairness

\* ------------------------------------------ one client calling in sequence
\* Task 1 awaits each reply before its next request (tests/test.rs:65-80), and
\* no call is dropped.
CallNext(k) ==
    /\ pc[1] = "idle"
    /\ Len(log) < MaxBurst
    /\ pc' = [pc EXCEPT ![1] = "waiting"]
    /\ key' = [key EXCEPT ![1] = k]
    /\ UNCHANGED <<config, state, lock, now, current, clock, log, last, hvars>>

NextBurst ==
    \/ \E k \in Keys : CallNext(k)
    \/ Acquire(1)
    \/ Decide(1)
    \/ Tick

SpecBurst == Init /\ [][NextBurst]_vars

\* ------------------------------------------- the header codec on its own
\* A caller builds a RateLimitInfo (its fields are public) and a response,
\* and calls add_rate_limit_headers once (tests/test.rs:232-243).

\* Default::default() of RateLimitConfig.
DefaultConfig ==
    [max_requests |-> 60, window |-> 60 * TicksPerSec, retry_after_format |-> "HttpDate"]

\* The bytes of the strings tried: NUL, tab, '1' and DEL.
Bytes == {0, 9, 49, 127}

Texts == UNION {[1..n -> Bytes] : n \in 0..MaxTextLen}

InfoInputs ==
    [retry_after : Texts,
     limit : {0, 100},
     remaining : {0, 50},
     reset_timestamp : {0 - 1, 0, 1234},
     retry_after_format : RetryAfterFormat]

\* A response that already carries the four headers, each with the value "x".
StaleHeaders == [h \in DOMAIN EmptyHeaders |-> Some(<<120>>)]

InitHeaders ==
    /\ config = DefaultConfig
    /\ state = [k \in Keys |-> None]
    /\ lock = 0
    /\ pc = [t \in Tasks |-> "idle"]
    /\ key = [t \in Tasks |-> "a"]
    /\ now = [t \in Tasks |-> 0]
    /\ current = [t \in Tasks |-> None]
    /\ clock = 0
    /\ log = <<>>
    /\ last = NoDecision
    /\ hdr_info \in InfoInputs
    /\ hdr_map \in {EmptyHeaders, StaleHeaders}
    /\ hdr_result = NotCalled

\* Lines 272-294: the call.
AddHeaders ==
    /\ hdr_result = NotCalled
    /\ LET r == add_rate_limit_headers(hdr_map, hdr_info) IN
         /\ hdr_result' = r.result
         /\ hdr_map' = r.headers
    /\ UNCHANGED <<config, state, lock, pc, key, now, current, clock, log, last, hdr_info>>

NextHeaders == AddHeaders

SpecHeaders == InitHeaders /\ [][NextHeaders]_vars

TypeOK ==
    /\ config \in RateLimitConfig
    /\ lock \in 0..NumTasks
    /\ clock \in 0..MaxTime
    /\ Len(log) <= MaxCalls

\* ------------------------------------------------------------ properties
\* The checks of key k, in the order of their decisions.
KeyLog(k) == SelectSeq(log, LAMBDA e : e.key = k)

\* The first i checks of L fall inside the window opened by the first one.
InOneWindow(L, i) ==
    \A j \in 1..i : L[j].now >= L[1].now /\ L[j].now - L[1].now <= config.window

CountOf(L, outcome) == Cardinality({i \in 1..Len(L) : L[i].outcome = outcome})

\* C1: with max_requests = N >= 1, the first N checks of a key that fall
\* inside one window are Admitted with remaining N-1, N-2, ..., 0, and the
\* (N+1)th check in that window is Rejected.
C1_MonotonicAdmission ==
    \A k \in Keys :
        LET L == KeyLog(k)
            N == config.max_requests
        IN  N >= 1 =>
              \A i \in 1..Len(L) :
                  InOneWindow(L, i) =>
                      /\ i <= N => L[i].outcome = "Admitted" /\ L[i].remaining = N - i
                      /\ i = N + 1 => L[i].outcome = "Rejected"

\* C1 witness: N = 2, two admissions and the rejection of the third check,
\* all in one window.
C1_Witness ==
    LET L == KeyLog("a") IN
    /\ config.max_requests = 2
    /\ Len(L) = 3
    /\ InOneWindow(L, 3)
    /\ L[2].remaining = 0
    /\ L[3].outcome = "Rejected"

\* C2: K checks of one key on a fresh limiter, all inside one window, with
\* max_requests = N < K: exactly N are Admitted and exactly K - N Rejected.
C2_ExactSplit ==
    \A k \in Keys :
        LET L == KeyLog(k)
            K == Len(L)
            N == config.max_requests
        IN  (N < K /\ InOneWindow(L, K)) =>
                /\ CountOf(L, "Admitted") = N
                /\ CountOf(L, "Rejected") = K - N

\* The Admitted decisions counted against the window now stored for key k.
AdmittedInWindow(k) ==
    Cardinality({i \in 1..Len(log) :
                    /\ log[i].key = k
                    /\ log[i].outcome = "Admitted"
                    /\ log[i].window_start = state[k].val.start})

\* C3: for every key the Admitted decisions of the stored window number the
\* stored count, and the count is at most max_requests.
C3_CountIsAdmissions ==
    \A k \in Keys :
        IF state[k].some
        THEN /\ AdmittedInWindow(k) = state[k].val.count
             /\ state[k].val.count <= config.max_requests
        ELSE CountOf(KeyLog(k), "Admitted") = 0

\* The two statements above hold of every configuration with max_requests >= 1.
ExactSplit_PositiveLimit == config.max_requests >= 1 => C2_ExactSplit
CountIsAdmissions_PositiveLimit == config.max_requests >= 1 => C3_CountIsAdmissions

\* A task that holds the guard is alone in the match, and the entry it read
\* is still the stored one.
Exclusive ==
    \A t \in Tasks :
        pc[t] = "locked" =>
            /\ lock = t
            /\ current[t] = state[key[t]]
            /\ \A u \in Tasks \ {t} : pc[u] # "locked"

\* A decision of task t is the one the match gives when run, alone, on the
\* store as it is at the decision.
SequentialStep ==
    \A t \in Tasks :
        (pc[t] = "locked" /\ pc'[t] = "idle") =>
            \E r \in Match(key[t], now[t], state[key[t]]) :
                /\ state' = Insert(state, key[t], r)
                /\ last' = r.decision

\* C4: the outcomes and the store of a concurrent execution are those of the
\* sequential algorithm run on the calls in the order of their lock
\* acquisitions, and no two calls interleave their read-modify-write.
C4_Linearizable == []Exclusive /\ [][SequentialStep]_vars

\* C4 witness: a second call of the same key waits while the first holds the
\* guard over an entry that an earlier call has written.
C4_Witness ==
    \E t \in Tasks, u \in Tasks :
        /\ pc[t] = "locked"
        /\ pc[u] = "waiting"
        /\ key[u] = key[t]
        /\ state[key[t]].some

\* The check that `last` describes found a window that had passed.
LastExpired ==
    /\ last.outcome # "None"
    /\ last.current.some
    /\ last.now - last.current.val.start > config.window

\* C5: a check that finds now - window_start > window overwrites the entry
\* with (now, 1) and is Admitted with remaining = max_requests - 1 (as u32).
C5_FreshWindowOnExpiry ==
    LastExpired =>
        /\ state[last.key] = Some([start |-> last.now, count |-> 1])
        /\ last.outcome = "Admitted"
        /\ last.info.remaining = (config.max_requests - 1) % U32

\* C5 holds of every configuration with max_requests >= 1.
FreshWindowOnExpiry_PositiveLimit == config.max_requests >= 1 => C5_FreshWindowOnExpiry

\* A check of one key leaves the entries of the other keys as they were.
OtherKeysUnchanged ==
    \A t \in Tasks :
        (pc[t] = "locked" /\ pc'[t] = "idle") =>
            \A B \in Keys \ {key[t]} : state'[B] = state[B]

\* The checks i.. of the key log L are what the match gives when only the
\* calls of L are run, in their order, from `entry`.
RECURSIVE Replay(_, _, _)
Replay(L, i, entry) ==
    IF i > Len(L) THEN TRUE
    ELSE \E r \in Match(L[i].key, L[i].now, entry) :
            /\ r.decision.outcome = L[i].outcome
            /\ r.decision.info.remaining = L[i].remaining
            /\ LET next == IF r.insert.some THEN r.insert ELSE entry IN
                 /\ next.val.start = L[i].window_start
                 /\ Replay(L, i + 1, next)

\* The decisions of every key are those of its own calls alone.
OwnCallsDecide == \A k \in Keys : Replay(KeyLog(k), 1, None)

\* C6: a check for key A leaves every other key's entry unchanged, and the
\* decisions for A are the same whatever calls for other keys are interleaved.
C6_IndependentKeys == []OwnCallsDecide /\ [][OtherKeysUnchanged]_vars

\* C6 witness: a check of key b between two checks of key a, all decided.
C6_Witness ==
    /\ Len(log) = 3
    /\ log[1].key = "a" /\ log[2].key = "b" /\ log[3].key = "a"
    /\ log[2].outcome = "Admitted"
    /\ log[3].outcome = "Rejected"

\* A configuration the data model calls sane: a positive limit and a window
\* of a second or more.
PositiveConfig == config.max_requests >= 1 /\ config.window >= TicksPerSec

\* The Retry-After value a client decodes from a Seconds-format rejection.
DecodedRetryAfter == parse_u64(get_rate_limit_info(last.rejection).retry_after)

LastRejectedInSeconds ==
    last.outcome = "Rejected" /\ last.rejection.retry_after_format = "Seconds"

\* C7: the Seconds-format Retry-After value of every Rejected decision is
\* greater than 0 and at most the window length in seconds (stated here of
\* the sane configurations, where it already fails).
C7_RetryAfterBounds ==
    (PositiveConfig /\ LastRejectedInSeconds) =>
        /\ DecodedRetryAfter > 0
        /\ DecodedRetryAfter * TicksPerSec <= config.window

\* The upper bound of C7 alone holds.
RetryAfterAtMostWindow ==
    LastRejectedInSeconds => DecodedRetryAfter * TicksPerSec <= config.window

\* A step that returns Rejected leaves the whole store as it was.
RejectionKeepsStore ==
    (log' # log /\ last'.outcome = "Rejected") => state' = state

\* C8: a Rejected check leaves the store unchanged: neither the count nor the
\* window_start of any key changes.
C8_RejectionKeepsStore == [][RejectionKeepsStore]_vars

\* C8 witness: two rejections in a row of a key whose entry has stayed at
\* count = max_requests.
C8_Witness ==
    /\ Len(log) = 3
    /\ log[2].key = log[3].key
    /\ log[2].outcome = "Rejected"
    /\ log[3].outcome = "Rejected"
    /\ state[log[3].key].val.count = config.max_requests

\* The wall-clock reading at the instant i of the monotonic clock.
Wall(i) == UtcEpoch + i

LastElapsed == last.now - last.current.val.start

C10_NoAbort == last.outcome \in {"None", "Admitted", "Rejected"}

\* No check aborts in a configuration with max_requests >= 1.
NoAbort_PositiveLimit == config.max_requests >= 1 => C10_NoAbort

\* C11: with max_requests = 0 every check of every key is Rejected; none is
\* Admitted.
C11_ZeroAdmitsNothing ==
    config.max_requests = 0 =>
        \A i \in 1..Len(log) : log[i].outcome = "Rejected"

\* C12: the remaining of every Admitted decision is max_requests minus the
\* count stored for the key after the request, and lies in
\* 0..max_requests - 1: the subtraction has not wrapped.
C12_RemainingNoUnderflow ==
    last.outcome = "Admitted" =>
        /\ last.info.remaining = config.max_requests - state[last.key].val.count
        /\ 0 <= last.info.remaining
        /\ last.info.remaining <= config.max_requests - 1

\* C12 holds of every configuration with max_requests >= 1.
RemainingNoUnderflow_PositiveLimit ==
    config.max_requests >= 1 => C12_RemainingNoUnderflow

\* A check dropped while it waits changes neither the store, nor the lock,
\* nor what has been decided.
CancelChangesNothing ==
    \A t \in Tasks :
        (pc[t] = "waiting" /\ pc'[t] = "dropped") =>
            state' = state /\ lock' = lock /\ log' = log /\ last' = last

\* The store changes only in the step of the guard's holder that also returns
\* the decision and drops the guard.
WholeDecision ==
    state' # state =>
        \E t \in Tasks :
            /\ pc[t] = "locked" /\ lock = t
            /\ pc'[t] = "idle" /\ lock' = 0
            /\ log' = Append(log, LogEntry(last', state'[key[t]].val.start))
            /\ last'.key = key[t]

\* The guard is out only to a check that is in its match, and when it is not
\* out every waiting check can take it.
LockIsLive ==
    /\ lock # 0 => pc[lock] = "locked"
    /\ lock = 0 => \A t \in Tasks : pc[t] = "waiting" => ENABLED Acquire(t)

\* C13: a check cancelled while it waits for the lock changes nothing in the
\* store; a check that holds the lock applies its whole decision before it
\* releases it; a cancelled waiter keeps no other check from the lock.
C13_CancelIsClean ==
    []LockIsLive /\ [][CancelChangesNothing /\ WholeDecision]_vars

\* C13 witness: one check was dropped while waiting and another has since
\* taken the lock over a stored entry.
C13_Witness ==
    \E t \in Tasks, u \in Tasks :
        /\ pc[t] = "dropped"
        /\ pc[u] = "locked"
        /\ state[key[u]].some

\* The inserts of hdr_info that do not encode, by their place in the order.
FailingFields ==
    {j \in 1..4 : \E b \in 1..Len(HeaderTexts(hdr_info)[j]) :
                      ~is_valid_byte(HeaderTexts(hdr_info)[j][b])}

FirstFailing == CHOOSE j \in FailingFields : \A m \in FailingFields : j <= m

\* A call with a field that does not encode returns HeaderError; the headers
\* before the failing one hold their new values, the failing one and those
\* after it are as they were.
FailureKeepsPrefix ==
    (hdr_result = NotCalled /\ hdr_result' # NotCalled /\ FailingFields # {}) =>
        /\ hdr_result' = HeaderError
        /\ \A j \in 1..4 :
              hdr_map'[HeaderNames[j]] =
                  IF j < FirstFailing THEN Some(HeaderTexts(hdr_info)[j])
                  ELSE hdr_map[HeaderNames[j]]

\* C14: on a field that is no valid header value add_rate_limit_headers
\* returns Err(HeaderError), inserts neither that header nor a later one, and
\* leaves the headers inserted before it.
C14_FailureKeepsPrefix == [][FailureKeepsPrefix]_vars

\* C14 witness: a retry_after with a NUL byte was refused and the response
\* still carries the four values it had.
C14_Witness ==
    /\ hdr_result = HeaderError
    /\ \E b \in 1..Len(hdr_info.retry_after) : hdr_info.retry_after[b] = 0
    /\ hdr_map = StaleHeaders

\* The header an error value names, "none" when it names none.
HeaderNamedBy(e) == IF "header" \in DOMAIN e THEN e.header ELSE "none"

\* C15 as stated: the error returned names the header that failed to encode.
C15_ErrorNamesHeader ==
    hdr_result.variant = "HeaderError" =>
        HeaderNamedBy(hdr_result) = HeaderNames[FirstFailing]

\* Every failure returns the same HeaderError, which names no header; the
\* header that failed is always Retry-After, the other three values being
\* decimal renderings of integers, which always encode.
OnlyRetryAfterFails ==
    hdr_result # NotCalled =>
        /\ FailingFields \subseteq {1}
        /\ hdr_result = (IF is_valid_header_value(hdr_info.retry_after)
                         THEN OkUnit ELSE HeaderError)
        /\ HeaderNamedBy(hdr_result) = "none"

\* The headers a handler sets for the rejection that `last` describes.
RejectionHeaders ==
    add_rate_limit_headers(EmptyHeaders, get_rate_limit_info(last.rejection))

\* C16: for every Rejected decision get_rate_limit_info and then
\* add_rate_limit_headers succeed and set the four headers: Limit = the
\* rejection's limit, Remaining = 0, Reset = the Unix timestamp of its reset
\* time, Retry-After in the configured format; the numbers parse back.
C16_RejectionHeaders ==
    last.outcome = "Rejected" =>
        LET r == RejectionHeaders
            rej == last.rejection
            h == r.headers
        IN  /\ r.result = OkUnit
            /\ \A j \in 1..4 : h[HeaderNames[j]].some
            /\ parse_u64(h["X-RateLimit-Limit"].val) = rej.limit
            /\ rej.limit = config.max_requests
            /\ parse_u64(h["X-RateLimit-Remaining"].val) = 0
            /\ parse_i64(h["X-RateLimit-Reset"].val) = rej.reset_time \div TicksPerSec
            /\ IF config.retry_after_format = "Seconds"
               THEN parse_u64(h["Retry-After"].val) = rej.retry_after \div TicksPerSec
               ELSE h["Retry-After"].val = to_rfc2822(rej.reset_time)

\* C16 witness: a Seconds-format rejection with a whole second and more left
\* and a two-digit reset timestamp.
C16_Witness ==
    /\ last.outcome = "Rejected"
    /\ config.retry_after_format = "Seconds"
    /\ last.rejection.retry_after >= TicksPerSec
    /\ Len(RejectionHeaders.headers["X-RateLimit-Reset"].val) = 2

\* The admissions of key k that arrived in the interval [a, a + window].
AdmittedWithin(k, a) ==
    Cardinality({i \in 1..Len(log) :
                    /\ log[i].key = k
                    /\ log[i].outcome = "Admitted"
                    /\ a <= log[i].now
                    /\ log[i].now <= a + config.window})

\* C17: for max_requests = N >= 1 at most 2N - 1 admissions of one key
\* arrive in any time interval of length window.
C17_BoundaryBurst ==
    config.max_requests >= 1 =>
        \A k \in Keys, a \in 0..MaxTime :
            AdmittedWithin(k, a) <= 2 * config.max_requests - 1

\* C17 witness: N = 2; one admission late in a window, then the two of the
\* next window, the three within one interval of length window.
C17_Witness ==
    /\ PositiveConfig
    /\ config.max_requests = 2
    /\ \E i, j, l \in 1..Len(log) :
          /\ i < j /\ j < l
          /\ \A e \in {i, j, l} : log[e].key = "a" /\ log[e].outcome = "Admitted"
          /\ log[i].now > log[i].window_start
          /\ log[j].window_start > log[i].window_start
          /\ log[l].window_start = log[j].window_start
          /\ log[l].now <= log[i].now + config.window
    /\ \E a \in 0..MaxTime : AdmittedWithin("a", a) = 2 * config.max_requests - 1

LastFoundEntry == last.outcome # "None" /\ last.current.some

LastAtBoundary == LastFoundEntry /\ LastElapsed = config.window

\* C18: a check at exactly now = window_start + window is handled in the
\* window it finds (Rejected at the limit, otherwise counted, the start
\* kept); a check that starts a fresh window has now - window_start > window.
C18_StrictExpiry ==
    /\ LastAtBoundary =>
          IF last.current.val.count >= config.max_requests
          THEN /\ last.outcome = "Rejected"
               /\ state[last.key] = last.current
          ELSE /\ last.outcome = "Admitted"
               /\ state[last.key] = Some([start |-> last.current.val.start,
                                          count |-> last.current.val.count + 1])
    /\ (LastFoundEntry /\ state[last.key].val.start # last.current.val.start) =>
          LastElapsed > config.window

\* C18 witness: a request counted at exactly window_start + window.
C18_Witness ==
    /\ PositiveConfig
    /\ LastAtBoundary
    /\ last.outcome = "Admitted"
    /\ state[last.key].val.count = 2

\* C19: an Admitted decision reports the reset time window_start + window of
\* the window the request was counted in, as reset_timestamp and as the
\* HttpDate Retry-After (stated of the sane configurations, and of checks
\* whose two clock reads fall on one instant, where it already fails).
C19_AdmittedResetIsWindowEnd ==
    (PositiveConfig /\ last.outcome = "Admitted" /\ last.utc = Wall(last.now)) =>
        LET reset_at == Wall(state[last.key].val.start) + config.window IN
            /\ last.info.reset_timestamp = timestamp(reset_at)
            /\ config.retry_after_format = "HttpDate" =>
                   last.info.retry_after = to_rfc2822(reset_at)

\* What create_info reports instead: the wall clock at the decision plus the
\* window, whatever the start of the window.
AdmittedResetIsReadPlusWindow ==
    last.outcome = "Admitted" =>
        /\ last.info.reset_timestamp = timestamp(last.utc + config.window)
        /\ config.retry_after_format = "HttpDate" =>
               last.info.retry_after = to_rfc2822(last.utc + config.window)

\* The entries are kept: they hold a count of 1 or more, and every completed
\* check left one for its key.
EntriesCounted ==
    /\ \A k \in Keys : state[k].some => state[k].val.count >= 1
    /\ \A i \in 1..Len(log) : state[log[i].key].some

KeysOnlyGrow == \A k \in Keys : state[k].some => state'[k].some

\* C20: entries are never removed: a key that was checked has an entry with
\* count >= 1 in every later state, and the set of stored keys only grows.
C20_NoEviction == []EntriesCounted /\ [][KeysOnlyGrow]_vars

\* C20 witness: both keys stored, one of them rejected and its window long
\* passed.
C20_Witness ==
    /\ state["a"].some /\ state["b"].some
    /\ \E i \in 1..Len(log) :
          /\ log[i].outcome = "Rejected"
          /\ clock - state[log[i].key].val.start > config.window

\* The times of the checks do not decrease in the order of their decisions,
\* which is the order in which they took the lock; no stored start is later
\* than the clock, nor than the `now` of the check that holds the lock.
TimesInLockOrder ==
    /\ \A i \in 1..Len(log), j \in 1..Len(log) : i < j => log[i].now <= log[j].now
    /\ \A i \in 1..Len(log) : log[i].window_start <= log[i].now
    /\ \A k \in Keys : state[k].some => state[k].val.start <= clock
    /\ \A t \in Tasks, k \in Keys :
          (pc[t] = "locked" /\ state[k].some) => state[k].val.start <= now[t]

\* A stored start never moves backwards, and it is set or changed only by a
\* check of that key that found no entry or found the window passed.
StartMovesOnlyOnFresh ==
    \A k \in Keys :
        /\ (state[k].some /\ state'[k].some) => state[k].val.start <= state'[k].val.start
        /\ (state'[k].some /\ (~state[k].some \/ state'[k].val.start # state[k].val.start)) =>
              /\ last'.key = k
              /\ last'.current = state[k]
              /\ state'[k].val.start = last'.now
              /\ (~last'.current.some
                    \/ last'.now - last'.current.val.start > config.window)

\* C21: `now` is read under the lock, so the times of the checks do not
\* decrease in lock order: no stored window_start is later than the now of
\* a later check, window_start never moves backwards, and it changes only in
\* a check that finds no entry or an expired window.
C21_MonotoneTime == []TimesInLockOrder /\ [][StartMovesOnlyOnFresh]_vars

\* C21 witness: the second check of a key found the window passed and moved
\* the start forward; a third check holds the lock at a time past that start.
C21_Witness ==
    /\ config.max_requests >= 1 /\ config.window >= 1
    /\ Len(log) >= 2
    /\ log[1].key = log[2].key
    /\ log[2].window_start > log[1].window_start
    /\ \E t \in Tasks :
          /\ pc[t] = "locked"
          /\ current[t].some
          /\ now[t] > current[t].val.start

\* A check that waits for the lock gets it, unless it is dropped, and a check
\* that holds the lock comes to its end.
EveryCallEnds ==
    \A t \in Tasks :
        /\ (pc[t] = "waiting") ~> (pc[t] = "locked" \/ pc[t] = "dropped")
        /\ (pc[t] = "locked") ~> (pc[t] = "idle")

LockReleased == (lock # 0) ~> (lock = 0)

\* While a check is pending, some pending check can take a step.
NotAllBlocked ==
    (\E t \in Tasks : pc[t] \in {"waiting", "locked"}) =>
        \E u \in Tasks : ENABLED Acquire(u) \/ ENABLED Decide(u)

\* The end of a check releases the lock.
EndReleases ==
    \A t \in Tasks : (pc[t] = "locked" /\ pc'[t] = "idle") => (lock = t /\ lock' = 0)

\* The end of a check is a returned decision.
EndIsDecision ==
    \A t \in Tasks :
        (pc[t] = "locked" /\ pc'[t] = "idle") => last'.outcome \in {"Admitted", "Rejected"}

\* C22: under fair lock scheduling every check that is not cancelled gets
\* the lock and returns a decision, the lock is released on every path, and
\* no state has the lock held forever or all pending checks blocked.
C22_EveryCallDecides ==
    /\ EveryCallEnds
    /\ LockReleased
    /\ []NotAllBlocked
    /\ [][EndReleases /\ EndIsDecision]_vars

\* The same for max_requests >= 1, where it holds; for every configuration
\* the checks end and the lock is released, on a panic too.
EveryCallDecides_PositiveLimit ==
    /\ EveryCallEnds
    /\ LockReleased
    /\ []NotAllBlocked
    /\ [][EndReleases /\ (config.max_requests >= 1 => EndIsDecision)]_vars
====
